---- MODULE Spec2Model ----
(***************************************************************************)
(* State-machine model of resident_scheduler's ScheduleModel               *)
(* (src/src/resident_scheduler/scheduler.py) and of the shift objects it   *)
(* schedules (src/src/base/shift.py, src/src/base/objects.py).             *)
(*                                                                         *)
(* Dates are day numbers; day 0 is a Monday, so date.weekday() is d % 7.   *)
(* A CP-SAT model is its set of linear constraints over 0/1 variables; the *)
(* backend is modelled by what it is documented to return: a satisfying    *)
(* assignment (minimal when it reports OPTIMAL and an objective is set),   *)
(* or no assignment.                                                       *)
(***************************************************************************)
EXTENDS Integers, Sequences, FiniteSets, TLC

VARIABLES
    residents,          \* ScheduleModel.residents : list of Resident
    shifts,             \* ScheduleModel.shifts    : list of Shift
    days,               \* ScheduleModel.days      : list of date
    hospitals,          \* ScheduleModel.hospital_system.hospitals
    residents_by_pgy,   \* lookup maps built by _create_lookup_maps
    shifts_by_day,
    shifts_by_team,
    shifts_by_hospital,
    assignments,        \* key set of ScheduleModel.assignments
    constraints,        \* constraints held by ScheduleModel.model (CpModel)
    objective_terms,    \* ScheduleModel.objective_terms
    objective,          \* the objective last given to model.Minimize
    solution,           \* the values held by ScheduleModel.solver after Solve
    call,               \* the last public invocation and what it did
    result,             \* what the last invocation returned
    applied_rules,      \* names of the generators that have run on this model
    calls               \* number of invocations made so far

vars == <<residents, shifts, days, hospitals, residents_by_pgy, shifts_by_day,
          shifts_by_team, shifts_by_hospital, assignments, constraints,
          objective_terms, objective, solution, call, result, applied_rules,
          calls>>

inputs == <<residents, shifts, days, hospitals>>
lookup_maps == <<residents_by_pgy, shifts_by_day, shifts_by_team, shifts_by_hospital>>

-----------------------------------------------------------------------------
(* Bounds of the model.                                                    *)

MaxResidents == 2
MaxShifts == 2
MaxCalls == 2
MaxWeekDays == 6

-----------------------------------------------------------------------------
(* base/objects.py                                                         *)

PGYLevel == {1, 2, 3}
ServiceType == {"ED", "OFF_SERVICE", "VACATION", "PEDS"}
Team == {"R", "G", "I", "E", "B", "P"}
DayOfWeek == <<"M", "T", "W", "R", "F", "S", "U">>

weekday(d) == d % 7
from_date(d) == DayOfWeek[weekday(d) + 1]

Resident(n, pgy, service, goal, off) ==
    [name |-> n, pgy_level |-> pgy, service_type |-> service,
     hours_goal |-> goal, requests_off |-> off]

-----------------------------------------------------------------------------
(* base/shift.py.  A template code "m-L-R-07-M" is kept as its five dash-  *)
(* separated components <<"m", "L", "R", 7, "M">>.                         *)

\* The dataclass ShiftTemplate; start_time is the hour of its time object
\* and start_minute the minute.
ShiftTemplate(hospital, team, hour, minute, day_of_week, code, is_mandatory) ==
    [is_mandatory |-> is_mandatory, hospital |-> hospital, team |-> team,
     start_time |-> hour, start_minute |-> minute, day_of_week |-> day_of_week,
     code |-> code]

\* from_code builds time(hour, 0).
from_code(code) ==
    ShiftTemplate(code[2], code[3], code[4], 0, code[5], code, code[1] = "m")

LIdw == <<"m", "L", "I", 14, "W">>
LB11w == <<"m", "L", "B", 14, "W">>

get_duration_LevelFirst(template, level) ==
    IF template.code = LIdw THEN 5
    ELSE IF template.code = LB11w THEN 9
    ELSE IF level = 1 THEN 12
    ELSE 10

get_duration(template, level) ==
    IF template.code = LIdw THEN 5
    ELSE IF template.code = LB11w THEN 9
    ELSE IF template.team = "P" THEN 10
    ELSE IF template.team = "E" THEN 10
    ELSE IF level = 1 THEN 12
    ELSE 10

\* The dataclass Shift.
Shift(template, shift_date, code) ==
    [template |-> template, date |-> shift_date, code |-> code]

\* shift_date.strftime('%Y%m%d') as a number, day 0 being Monday 2024-07-08
\* (the first day of the horizon of tests/resident_scheduler); days 0..54.
strftime_Ymd(shift_date) ==
    IF shift_date <= 23 THEN 20240708 + shift_date
    ELSE 20240801 + (shift_date - 24)

\* Returns the shift, or raises ValueError on another weekday than the
\* template's.  The code of the shift is the pair <<template code, YYYYMMDD>>.
create_shift(template, shift_date) ==
    IF from_date(shift_date) # template.day_of_week
    THEN [kind |-> "ValueError", value |-> <<>>]
    ELSE [kind |-> "returned",
          value |-> Shift(template, shift_date,
                          <<template.code, strftime_Ymd(shift_date)>>)]

duration(shift, level) == get_duration(shift.template, level)

matching_templates_AllTemplates(templates, current_date) == templates

\* The templates the inner loop of generate_shifts_for_date_range passes to
\* create_shift for one date (shift.py:203-205).
matching_templates(templates, current_date) ==
    SelectSeq(templates, LAMBDA t : t.day_of_week = from_date(current_date))

\* The while loop from current_date on; an exception of create_shift ends it.
RECURSIVE generate_shifts_for_date_range(_, _, _)
generate_shifts_for_date_range(templates, current_date, end_date) ==
    IF current_date > end_date THEN [kind |-> "returned", value |-> <<>>]
    ELSE LET made == [i \in 1..Len(matching_templates(templates, current_date)) |->
                         create_shift(matching_templates(templates, current_date)[i],
                                      current_date)]
             rest == generate_shifts_for_date_range(templates, current_date + 1,
                                                    end_date)
         IN  IF \E i \in 1..Len(made) : made[i].kind = "ValueError"
             THEN [kind |-> "ValueError", value |-> <<>>]
             ELSE IF rest.kind = "ValueError" THEN rest
             ELSE [kind |-> "returned",
                   value |-> [i \in 1..Len(made) |-> made[i].value] \o rest.value]

\* convert_old_to_new_code.  A string is the sequence of its characters.
DigitChars == <<"0", "1", "2", "3", "4", "5", "6", "7", "8", "9">>

isdigit(c) == \E n \in 1..Len(DigitChars) : DigitChars[n] = c

\* str.upper() on one character of a legacy code.
upper(c) ==
    CASE c = "m" -> "M" [] c = "t" -> "T" [] c = "w" -> "W" [] c = "r" -> "R"
      [] c = "f" -> "F" [] c = "s" -> "S" [] c = "u" -> "U" [] c = "d" -> "D"
      [] c = "n" -> "N" [] c = "x" -> "X" [] OTHER -> c

\* int(s) for a string of decimal digits; any other string, the empty one
\* included, makes int raise ValueError.
RECURSIVE int_value(_)
int_value(s) ==
    IF s = <<>> THEN 0
    ELSE 10 * int_value(SubSeq(s, 1, Len(s) - 1))
             + ((CHOOSE n \in 1..Len(DigitChars) : DigitChars[n] = s[Len(s)]) - 1)

int(s) ==
    IF s # <<>> /\ \A i \in 1..Len(s) : isdigit(s[i])
    THEN [kind |-> "returned", value |-> int_value(s)]
    ELSE [kind |-> "ValueError", value |-> 0]

RECURSIVE str(_)
str(n) ==
    IF n < 10 THEN <<DigitChars[n + 1]>>
    ELSE str(n \div 10) \o <<DigitChars[(n % 10) + 1]>>

\* f"{n:02d}"
format_02d(n) == IF n < 10 THEN <<"0">> \o str(n) ELSE str(n)

start_time_AmBelowNoon(time_spec) ==
    IF time_spec = <<"d">> THEN [kind |-> "returned", value |-> <<"0", "7">>]
    ELSE IF time_spec = <<"n">> THEN [kind |-> "returned", value |-> <<"1", "9">>]
    ELSE IF int(time_spec).kind = "ValueError" THEN int(time_spec)
    ELSE IF int(time_spec).value < 12
         THEN [kind |-> "returned", value |-> format_02d(int(time_spec).value)]
    ELSE [kind |-> "returned",
          value |-> format_02d((int(time_spec).value % 12) + 12)]

\* Lines 42-56: the start time of a time spec.
start_time(time_spec) ==
    IF time_spec = <<"d">> THEN [kind |-> "returned", value |-> <<"0", "7">>]
    ELSE IF time_spec = <<"n">> THEN [kind |-> "returned", value |-> <<"1", "9">>]
    ELSE IF int(time_spec).kind = "ValueError" THEN int(time_spec)
    ELSE IF int(time_spec).value \in {7, 9, 11}
         THEN [kind |-> "returned", value |-> format_02d(int(time_spec).value)]
    ELSE [kind |-> "returned",
          value |-> format_02d((int(time_spec).value % 12) + 12)]

is_optional(old_code) ==
    old_code # <<>> /\ Head(old_code) = "(" /\ old_code[Len(old_code)] = ")"

\* old_code[1:-1] when the code is parenthesised, else the code itself.
strip_optional(old_code) ==
    IF is_optional(old_code) THEN SubSeq(old_code, 2, Len(old_code) - 1)
    ELSE old_code

optional_prefix(old_code) == IF is_optional(old_code) THEN "o" ELSE "m"

special_cases(prefix) ==
    {<<<<"L", "I", "d", "w">>, <<prefix, "-", "L", "-", "I", "-", "1", "4", "-", "W">>>>,
     <<<<"L", "B", "1", "1", "w">>, <<prefix, "-", "L", "-", "B", "-", "1", "4", "-", "W">>>>}

\* Lines 37-59: hospital, team, time spec and day of a code of length >= 2;
\* indexing a shorter string raises IndexError.
parse_code(code, prefix) ==
    IF Len(code) < 2 THEN [kind |-> "IndexError", value |-> <<>>]
    ELSE IF start_time(SubSeq(code, 3, Len(code) - 1)).kind = "ValueError"
         THEN [kind |-> "ValueError", value |-> <<>>]
    ELSE [kind |-> "returned",
          value |-> <<prefix, "-", code[1], "-", code[2], "-">>
                        \o start_time(SubSeq(code, 3, Len(code) - 1)).value
                        \o <<"-", upper(code[Len(code)])>>]

convert_old_to_new_code_NoLengthCheck(old_code) ==
    IF \E sc \in special_cases(optional_prefix(old_code)) :
           sc[1] = strip_optional(old_code)
    THEN [kind |-> "returned",
          value |-> (CHOOSE sc \in special_cases(optional_prefix(old_code)) :
                        sc[1] = strip_optional(old_code))[2]]
    ELSE parse_code(strip_optional(old_code), optional_prefix(old_code))

convert_old_to_new_code(old_code) ==
    IF \E sc \in special_cases(optional_prefix(old_code)) :
           sc[1] = strip_optional(old_code)
    THEN [kind |-> "returned",
          value |-> (CHOOSE sc \in special_cases(optional_prefix(old_code)) :
                        sc[1] = strip_optional(old_code))[2]]
    ELSE IF Len(strip_optional(old_code)) < 4
         THEN [kind |-> "ValueError", value |-> <<>>]
    ELSE parse_code(strip_optional(old_code), optional_prefix(old_code))

-----------------------------------------------------------------------------
(* Sequence helpers.                                                       *)

Range(seq) == {seq[i] : i \in 1..Len(seq)}

RECURSIVE SumSeq(_)
SumSeq(seq) == IF seq = <<>> THEN 0 ELSE Head(seq) + SumSeq(Tail(seq))

RECURSIVE Flatten(_)
Flatten(seqs) == IF seqs = <<>> THEN <<>> ELSE Head(seqs) \o Flatten(Tail(seqs))

-----------------------------------------------------------------------------
(* ScheduleModel.__post_init__                                             *)

create_lookup_maps_pgy(rs) ==
    [pgy \in PGYLevel |-> SelectSeq(rs, LAMBDA r : r.pgy_level = pgy)]

create_lookup_maps_day(ss, ds) ==
    [day \in Range(ds) |-> SelectSeq(ss, LAMBDA s : s.date = day)]

\* Grouping as itertools.groupby does on an unsorted list: a later run of a
\* team replaces the earlier one.
create_lookup_maps_team_LastRun(ss) ==
    [team \in Team |->
        SelectSeq(ss, LAMBDA s :
            /\ s.template.team = team
            /\ \A i, j, k \in 1..Len(ss) :
                  (ss[i] = s /\ i < j /\ j < k /\ ss[k].template.team = team)
                      => ss[j].template.team = team)]

create_lookup_maps_team(ss) ==
    [team \in Team |-> SelectSeq(ss, LAMBDA s : s.template.team = team)]

create_lookup_maps_hospital(ss, hs) ==
    [h \in Range(hs) |-> SelectSeq(ss, LAMBDA s : s.template.hospital = h)]

eligible_residents_VacationOnly(rs) ==
    SelectSeq(rs, LAMBDA r : r.service_type \notin {"VACATION"})

eligible_residents(rs) ==
    SelectSeq(rs, LAMBDA r : r.service_type \notin {"OFF_SERVICE", "VACATION"})

create_assignment_variables(rs, by_day, ds) ==
    UNION {{<<day, shift, resident>> :
                shift \in Range(by_day[day]),
                resident \in Range(eligible_residents(rs))} : day \in Range(ds)}

-----------------------------------------------------------------------------
(* CP-SAT model building blocks.  A linear expression is a sequence of     *)
(* <<variable key, coefficient>> terms; a constraint compares it with a    *)
(* constant, optionally enforced only under a literal of an auxiliary      *)
(* boolean.  Python's sum() over no variable is the integer 0, and         *)
(* model.Add of the resulting Python bool is the constant constraint, so   *)
(* an empty expression is evaluated like any other.                        *)

InPool(keys) == SelectSeq(keys, LAMBDA k : k \in assignments)

Sum(keys) == [i \in 1..Len(InPool(keys)) |-> <<InPool(keys)[i], 1>>]

Add(expr, op, rhs) == [expr |-> expr, op |-> op, rhs |-> rhs, lit |-> <<>>]

OnlyEnforceIf(ct, aux, polarity) == [ct EXCEPT !.lit = <<aux, polarity>>]

Active(resident) == resident.service_type \in {"ED", "PEDS"}

DayKeys(day, resident) ==
    [j \in 1..Len(shifts_by_day[day]) |-> <<day, shifts_by_day[day][j], resident>>]

ResidentKeys(day, shift, rs) == [i \in 1..Len(rs) |-> <<day, shift, rs[i]>>]

week_start(day) == day - weekday(day)

weeks == {week_start(days[i]) : i \in 1..Len(days)}

week_days(ws) == SelectSeq(days, LAMBDA d : week_start(d) = ws)

WeekKeys(ws, resident) ==
    Flatten([i \in 1..Len(week_days(ws)) |-> DayKeys(week_days(ws)[i], resident)])

-----------------------------------------------------------------------------
(* Constraint generators: each yields the constraints it adds to the model *)
(* and the terms it appends to objective_terms.                            *)

Generated(cts, terms) == [constraints |-> cts, terms |-> terms, raised |-> FALSE]

Raised == [constraints |-> {}, terms |-> <<>>, raised |-> TRUE]

DayShifts ==
    UNION {{<<day, shift>> : shift \in Range(shifts_by_day[day])} :
              day \in Range(days)}

\* bool(expr > 0) at scheduler.py:236 and :375.  For the integer 0 (no
\* variable in the sum) it is False.  For a linear expression the backend
\* decides: builds without BoundedLinearExpression.__bool__ give True,
\* builds with it raise NotImplementedError; `truthy` selects the build.
ExprPositive(expr, truthy) ==
    IF expr = <<>> THEN "False" ELSE IF truthy THEN "True" ELSE "raise"

shift_assignment_constraints_AtMostOne ==
    Generated({Add(Sum(ResidentKeys(ds[1], ds[2], residents)), "<=", 1) :
                  ds \in {x \in DayShifts : x[2].template.is_mandatory}},
              <<>>)

shift_assignment_constraints ==
    Generated({Add(Sum(ResidentKeys(ds[1], ds[2], residents)), "==", 1) :
                  ds \in {x \in DayShifts : x[2].template.is_mandatory}},
              <<>>)

resident_daily_constraints_EdOnly ==
    Generated({Add(Sum(DayKeys(day, resident)), "<=", 1) :
                  day \in Range(days),
                  resident \in {r \in Range(residents) : r.service_type = "ED"}},
              <<>>)

resident_daily_constraints ==
    Generated({Add(Sum(DayKeys(day, resident)), "<=", 1) :
                  day \in Range(days),
                  resident \in {r \in Range(residents) : Active(r)}},
              <<>>)

\* The keys of shifts_by_start_time, in insertion order.
start_hours(day) ==
    LET on_day == shifts_by_day[day]
        firsts == SelectSeq([j \in 1..Len(on_day) |-> j],
                      LAMBDA j : \A i \in 1..(j - 1) :
                          on_day[i].template.start_time # on_day[j].template.start_time)
    IN  [n \in 1..Len(firsts) |-> on_day[firsts[n]].template.start_time]

shifts_by_start_time(day, start_hour) ==
    SelectSeq(shifts_by_day[day], LAMBDA s : s.template.start_time = start_hour)

overlapping_shifts_NoWrap(day, start_hour) ==
    Flatten([n \in 1..Len(start_hours(day)) |->
        IF /\ start_hours(day)[n] - start_hour >= 0
           /\ start_hours(day)[n] - start_hour < 12
        THEN shifts_by_start_time(day, start_hours(day)[n]) ELSE <<>>])

overlapping_shifts_Inclusive(day, start_hour) ==
    Flatten([n \in 1..Len(start_hours(day)) |->
        IF (start_hours(day)[n] - start_hour) % 24 <= 12
        THEN shifts_by_start_time(day, start_hours(day)[n]) ELSE <<>>])

overlapping_shifts(day, start_hour) ==
    Flatten([n \in 1..Len(start_hours(day)) |->
        IF (start_hours(day)[n] - start_hour) % 24 < 12
        THEN shifts_by_start_time(day, start_hours(day)[n]) ELSE <<>>])

continuous_hours_constraints ==
    Generated(
        {Add(Sum([j \in 1..Len(overlapping_shifts(day, start_hour)) |->
                     <<day, overlapping_shifts(day, start_hour)[j], resident>>]),
             "<=", 1) :
            <<day, resident, start_hour>> \in
                {x \in Range(days) \X Range(residents) \X (0..23) :
                    /\ Active(x[2])
                    /\ x[3] \in Range(start_hours(x[1]))
                    /\ Len(overlapping_shifts(x[1], x[3])) > 1}},
        <<>>)

total_hours_FlatDuration(ws, resident) ==
    [i \in 1..Len(InPool(WeekKeys(ws, resident))) |->
        <<InPool(WeekKeys(ws, resident))[i], 10>>]

total_hours(ws, resident) ==
    [i \in 1..Len(InPool(WeekKeys(ws, resident))) |->
        <<InPool(WeekKeys(ws, resident))[i],
          duration(InPool(WeekKeys(ws, resident))[i][2], resident.pgy_level)>>]

WeekResidents == {wr \in weeks \X Range(residents) : Active(wr[2])}

WeeklyHoursLimit == 60

weekly_hours_constraints(truthy) ==
    IF \E wr \in WeekResidents :
           ExprPositive(total_hours(wr[1], wr[2]), truthy) = "raise"
    THEN Raised
    ELSE Generated({Add(total_hours(wr[1], wr[2]), "<=", WeeklyHoursLimit) :
                       wr \in {x \in WeekResidents :
                                  ExprPositive(total_hours(x[1], x[2]), truthy)
                                      = "True"}},
                   <<>>)

TeamRule(team, pgy, op) ==
    {Add(Sum(ResidentKeys(day, shifts_by_team[team][j], residents_by_pgy[pgy])),
         op, 1) :
        day \in {d \in Range(days) : d \in DOMAIN shifts_by_day},
        j \in 1..Len(shifts_by_team[team])}

team_constraints ==
    Generated(TeamRule("R", 3, "==") \cup TeamRule("G", 2, "==")
                  \cup TeamRule("I", 1, "==") \cup TeamRule("B", 1, ">="),
              <<>>)

\* The (previous-day key, current-day key) pairs of one resident the rest
\* rule compares: days adjacent in the day list, both keys in the pool.
rest_period_pairs(day_idx, resident) ==
    {<<DayKeys(days[day_idx - 1], resident)[i], DayKeys(days[day_idx], resident)[j]>> :
        i \in 1..Len(shifts_by_day[days[day_idx - 1]]),
        j \in 1..Len(shifts_by_day[days[day_idx]])}
    \cap (assignments \X assignments)

rest_period_HalfDay(prev_shift, resident) ==
    12 - duration(prev_shift, resident.pgy_level)

rest_period(prev_shift, resident) == 24 - duration(prev_shift, resident.pgy_level)

rest_period_constraints ==
    Generated(
        UNION {{Add(<<<<pair[1], 1>>, <<pair[2], 1>>>>, "<=", 1) :
                   pair \in {x \in rest_period_pairs(dr[1], dr[2]) :
                                rest_period(x[1][2], dr[2])
                                    < duration(x[2][2], dr[2].pgy_level)}} :
               dr \in {y \in (2..Len(days)) \X Range(residents) : Active(y[2])}},
        <<>>)

week_assignments(ws, resident) == Sum(WeekKeys(ws, resident))

day_off_constraints_OffByOne(truthy) ==
    IF \E wr \in WeekResidents :
           ExprPositive(week_assignments(wr[1], wr[2]), truthy) = "raise"
    THEN Raised
    ELSE Generated({Add(week_assignments(wr[1], wr[2]), "<=",
                        Len(week_days(wr[1]))) :
                       wr \in {x \in WeekResidents :
                                  ExprPositive(week_assignments(x[1], x[2]), truthy)
                                      = "True"}},
                   <<>>)

\* The variant that leaves a week with a single horizon day unconstrained.
day_off_constraints_SkipsSingleDay(truthy) ==
    IF \E wr \in WeekResidents :
           ExprPositive(week_assignments(wr[1], wr[2]), truthy) = "raise"
    THEN Raised
    ELSE Generated({Add(week_assignments(wr[1], wr[2]), "<=",
                        Len(week_days(wr[1])) - 1) :
                       wr \in {x \in WeekResidents :
                                  /\ ExprPositive(week_assignments(x[1], x[2]), truthy)
                                         = "True"
                                  /\ Len(week_days(x[1])) > 1}},
                   <<>>)

day_off_constraints(truthy) ==
    IF \E wr \in WeekResidents :
           ExprPositive(week_assignments(wr[1], wr[2]), truthy) = "raise"
    THEN Raised
    ELSE Generated({Add(week_assignments(wr[1], wr[2]), "<=",
                        Len(week_days(wr[1])) - 1) :
                       wr \in {x \in WeekResidents :
                                  ExprPositive(week_assignments(x[1], x[2]), truthy)
                                      = "True"}},
                   <<>>)

\* The deviation variable of a resident: NewIntVar at scheduler.py:401.
deviation(resident) == <<"deviation", resident.name>>

\* AddAbsEquality(target, expr - subtracted): target = |expr - subtracted|.
AddAbsEquality(target, expr, subtracted) ==
    [expr |-> expr, op |-> "abs", rhs |-> subtracted, lit |-> <<>>,
     target |-> target]

HorizonKeys(resident) ==
    Flatten([i \in 1..Len(days) |-> DayKeys(days[i], resident)])

hour_goal_total_hours_Unweighted(resident) ==
    [i \in 1..Len(InPool(HorizonKeys(resident))) |->
        <<InPool(HorizonKeys(resident))[i], 1>>]

\* total_hours of scheduler.py:391-398: duration-weighted over the horizon.
hour_goal_total_hours(resident) ==
    [i \in 1..Len(InPool(HorizonKeys(resident))) |->
        <<InPool(HorizonKeys(resident))[i],
          duration(InPool(HorizonKeys(resident))[i][2], resident.pgy_level)>>]

ActiveRoster == SelectSeq(residents, Active)

hour_goal_constraints ==
    Generated({AddAbsEquality(deviation(resident), hour_goal_total_hours(resident),
                              resident.hours_goal) :
                  resident \in Range(ActiveRoster)},
              [i \in 1..Len(ActiveRoster) |-> deviation(ActiveRoster[i])])

\* The violation variable of a day pair: NewBoolVar at scheduler.py:442.
hospital_violation(day, resident, hospital) ==
    <<"hospital_violation", day, resident.name, hospital>>

hospital_shifts(day, hospital) ==
    SelectSeq(shifts_by_day[day], LAMBDA s : s.template.hospital = hospital)

hospital_assignments_CurrentDayOnly(day_idx, resident, hospital) ==
    Sum([j \in 1..Len(hospital_shifts(days[day_idx], hospital)) |->
            <<days[day_idx], hospital_shifts(days[day_idx], hospital)[j], resident>>])

\* The sum over the previous day's and the current day's shifts at the
\* hospital (scheduler.py:447-455).
hospital_assignments(day_idx, resident, hospital) ==
    Sum([j \in 1..Len(hospital_shifts(days[day_idx - 1], hospital)) |->
            <<days[day_idx - 1], hospital_shifts(days[day_idx - 1], hospital)[j],
              resident>>])
    \o Sum([j \in 1..Len(hospital_shifts(days[day_idx], hospital)) |->
               <<days[day_idx], hospital_shifts(days[day_idx], hospital)[j], resident>>])

\* The <<day index, resident, hospital>> the loops of scheduler.py:417-440
\* reach with shifts at the hospital on both days, in loop order.
alternating_hospital_cases ==
    Flatten([day_idx \in 1..Len(days) |->
        IF day_idx = 1 THEN <<>>
        ELSE Flatten([i \in 1..Len(ActiveRoster) |->
                 SelectSeq([h \in 1..Len(hospitals) |->
                               <<day_idx, ActiveRoster[i], hospitals[h]>>],
                           LAMBDA c :
                               /\ hospital_shifts(days[c[1]], c[3]) # <<>>
                               /\ hospital_shifts(days[c[1] - 1], c[3]) # <<>>)])])

alternating_hospital_constraints ==
    Generated(
        UNION {{OnlyEnforceIf(Add(hospital_assignments(c[1], c[2], c[3]), ">=", 2),
                              hospital_violation(days[c[1]], c[2], c[3]), TRUE),
                OnlyEnforceIf(Add(hospital_assignments(c[1], c[2], c[3]), "<", 2),
                              hospital_violation(days[c[1]], c[2], c[3]), FALSE)} :
                  c \in Range(alternating_hospital_cases)},
        [n \in 1..Len(alternating_hospital_cases) |->
            hospital_violation(days[alternating_hospital_cases[n][1]],
                               alternating_hospital_cases[n][2],
                               alternating_hospital_cases[n][3])])

\* The violation variable of a request: NewBoolVar at scheduler.py:493.
request_violation(request_date, resident) ==
    <<"request_violation", request_date, resident.name>>

\* The variant that snaps a request to the nearest horizon day within 7 days.
Requests_NearestDay ==
    Flatten([i \in 1..Len(residents) |->
        SelectSeq([k \in 1..Len(residents[i].requests_off) |->
                      <<residents[i],
                        CHOOSE day \in Range(days) \cup {residents[i].requests_off[k]} :
                            \A other \in Range(days) :
                                (IF day >= residents[i].requests_off[k]
                                 THEN day - residents[i].requests_off[k]
                                 ELSE residents[i].requests_off[k] - day)
                                <= (IF other >= residents[i].requests_off[k]
                                    THEN other - residents[i].requests_off[k]
                                    ELSE residents[i].requests_off[k] - other)>>],
                  LAMBDA rq : rq[2] \in Range(days))])

\* The (resident, requested date) pairs of scheduler.py:478-484, in order.
Requests ==
    Flatten([i \in 1..Len(residents) |->
        SelectSeq([k \in 1..Len(residents[i].requests_off) |->
                      <<residents[i], residents[i].requests_off[k]>>],
                  LAMBDA rq : rq[2] \in Range(days))])

time_off_constraints ==
    Generated(
        UNION {{OnlyEnforceIf(Add(Sum(DayKeys(rq[2], rq[1])), ">", 0),
                              request_violation(rq[2], rq[1]), TRUE),
                OnlyEnforceIf(Add(Sum(DayKeys(rq[2], rq[1])), "==", 0),
                              request_violation(rq[2], rq[1]), FALSE)} :
                  rq \in Range(Requests)},
        [i \in 1..Len(Requests) |-> request_violation(Requests[i][2], Requests[i][1])])

\* The violation variable of a triple of shifts: NewBoolVar at
\* scheduler.py:557.  The variables of one day and resident share their name
\* and are distinct variables, one per triple.
rhythm_violation(day, resident, prev_prev_shift, prev_shift, shift) ==
    <<"rhythm_violation", day, resident.name, "flipflop",
      <<prev_prev_shift, prev_shift, shift>>>>

flipflop_LaterThan16(prev_prev_start_hour, prev_start_hour, start_hour) ==
    prev_prev_start_hour = 7 /\ prev_start_hour > 16 /\ start_hour = 7

\* The pattern test of scheduler.py:551-555.
flipflop(prev_prev_start_hour, prev_start_hour, start_hour) ==
    prev_prev_start_hour = 7 /\ prev_start_hour >= 16 /\ start_hour = 7

\* The <<day index, resident, prev_prev_shift, prev_shift, shift>> the loops
\* of scheduler.py:516-555 reach with the pattern, in loop order.
circadian_rhythm_cases ==
    Flatten([day_idx \in 1..Len(days) |->
        IF day_idx < 3 THEN <<>>
        ELSE Flatten([i \in 1..Len(ActiveRoster) |->
          Flatten([j \in 1..Len(shifts_by_day[days[day_idx]]) |->
            Flatten([k \in 1..Len(shifts_by_day[days[day_idx - 1]]) |->
              SelectSeq([l \in 1..Len(shifts_by_day[days[day_idx - 2]]) |->
                            <<day_idx, ActiveRoster[i],
                              shifts_by_day[days[day_idx - 2]][l],
                              shifts_by_day[days[day_idx - 1]][k],
                              shifts_by_day[days[day_idx]][j]>>],
                        LAMBDA c :
                            /\ <<days[c[1]], c[5], c[2]>> \in assignments
                            /\ <<days[c[1] - 1], c[4], c[2]>> \in assignments
                            /\ <<days[c[1] - 2], c[3], c[2]>> \in assignments
                            /\ flipflop(c[3].template.start_time,
                                        c[4].template.start_time,
                                        c[5].template.start_time))])])])])

circadian_rhythm_sum(c) ==
    <<<<<<days[c[1] - 2], c[3], c[2]>>, 1>>, <<<<days[c[1] - 1], c[4], c[2]>>, 1>>,
      <<<<days[c[1]], c[5], c[2]>>, 1>>>>

circadian_rhythm_constraints ==
    Generated(
        UNION {{OnlyEnforceIf(Add(circadian_rhythm_sum(c), ">=", 3),
                              rhythm_violation(days[c[1]], c[2], c[3], c[4], c[5]),
                              TRUE),
                OnlyEnforceIf(Add(circadian_rhythm_sum(c), "<", 3),
                              rhythm_violation(days[c[1]], c[2], c[3], c[4], c[5]),
                              FALSE)} :
                  c \in Range(circadian_rhythm_cases)},
        [n \in 1..Len(circadian_rhythm_cases) |->
            rhythm_violation(days[circadian_rhythm_cases[n][1]],
                             circadian_rhythm_cases[n][2], circadian_rhythm_cases[n][3],
                             circadian_rhythm_cases[n][4], circadian_rhythm_cases[n][5])])

-----------------------------------------------------------------------------
(* The registry and apply_constraints.                                     *)

ConstraintSpec(name) == [name |-> name, enabled |-> TRUE]

\* Every entry but the first is commented out in the source.
get_constraint_specs == <<ConstraintSpec("shift_assignment")>>

constraint_func(name, truthy) ==
    CASE name = "shift_assignment" -> shift_assignment_constraints
      [] name = "resident_daily" -> resident_daily_constraints
      [] name = "continuous_hours" -> continuous_hours_constraints
      [] name = "weekly_hours" -> weekly_hours_constraints(truthy)
      [] name = "team_assignment" -> team_constraints
      [] name = "rest_periods" -> rest_period_constraints
      [] name = "day_off" -> day_off_constraints(truthy)
      [] name = "hour_goals" -> hour_goal_constraints
      [] name = "alternating_hospitals" -> alternating_hospital_constraints
      [] name = "time_off" -> time_off_constraints
      [] name = "circadian_rhythm" -> circadian_rhythm_constraints

NothingApplied == [constraints |-> {}, terms |-> <<>>, applied |-> <<>>, raised |-> FALSE]

\* The loop of apply_constraints: an exception of a generator ends it.
RECURSIVE apply_loop(_, _, _)
apply_loop(constraint_specs, truthy, done) ==
    IF constraint_specs = <<>> THEN done
    ELSE IF ~Head(constraint_specs).enabled
         THEN apply_loop(Tail(constraint_specs), truthy, done)
    ELSE LET made == constraint_func(Head(constraint_specs).name, truthy)
         IN  IF made.raised THEN [done EXCEPT !.raised = TRUE]
             ELSE apply_loop(Tail(constraint_specs), truthy,
                     [constraints |-> done.constraints \cup made.constraints,
                      terms |-> done.terms \o made.terms,
                      applied |-> Append(done.applied, Head(constraint_specs).name),
                      raised |-> FALSE])

apply_constraints(constraint_specs, truthy) ==
    apply_loop(IF constraint_specs.given THEN constraint_specs.specs
               ELSE get_constraint_specs,
               truthy, NothingApplied)

-----------------------------------------------------------------------------
(* The backend: CpSolver.Solve over the model's constraints and objective. *)

Compare(lhs, op, rhs) ==
    CASE op = "==" -> lhs = rhs
      [] op = "<=" -> lhs <= rhs
      [] op = ">=" -> lhs >= rhs
      [] op = ">" -> lhs > rhs
      [] op = "<" -> lhs < rhs

Value(expr, a) == SumSeq([i \in 1..Len(expr) |-> expr[i][2] * a[expr[i][1]]])

Abs(n) == IF n < 0 THEN 0 - n ELSE n

Holds(ct, s) ==
    IF ct.op = "abs"
    THEN s.x[ct.target] = Abs(Value(ct.expr, s.a) - ct.rhs)
    ELSE \/ ct.lit # <<>> /\ s.x[ct.lit[1]] # (IF ct.lit[2] THEN 1 ELSE 0)
         \/ Compare(Value(ct.expr, s.a), ct.op, ct.rhs)

AuxVars(cts) == {ct.lit[1] : ct \in {c \in cts : c.lit # <<>>}}

\* The integer variables of the model: NewIntVar(0, 1000, ...) at
\* scheduler.py:401, each the target of an AddAbsEquality.
IntVars(cts) == {ct.target : ct \in {c \in cts : c.op = "abs"}}

IntVarUpperBound == 1000

\* The values of its domain 0..1000 an integer variable can take under the
\* assignment a: those an AddAbsEquality on it computes.
IntValues(cts, v, a) ==
    {Abs(Value(ct.expr, a) - ct.rhs) :
        ct \in {c \in cts : c.op = "abs" /\ c.target = v}}
        \cap (0..IntVarUpperBound)

AuxValues(cts, a) ==
    {x \in [AuxVars(cts) \cup IntVars(cts) ->
                {0, 1} \cup UNION {IntValues(cts, v, a) : v \in IntVars(cts)}] :
        \A v \in DOMAIN x :
            x[v] \in (IF v \in IntVars(cts) THEN IntValues(cts, v, a) ELSE {0, 1})}

Solutions(cts) ==
    {s \in UNION {{[a |-> a, x |-> x] : x \in AuxValues(cts, a)} :
                    a \in [assignments -> {0, 1}]} :
        \A ct \in cts : Holds(ct, s)}

ObjectiveValue(obj, s) == SumSeq([i \in 1..Len(obj.terms) |-> s.x[obj.terms[i]]])

Optimal(cts, obj) ==
    IF obj.set
    THEN {s \in Solutions(cts) :
             \A o \in Solutions(cts) : ObjectiveValue(obj, s) <= ObjectiveValue(obj, o)}
    ELSE Solutions(cts)

NoValues == [a |-> <<>>, x |-> <<>>]

\* The outcomes of CpSolver.Solve: <<status, values>>.  The time limit may
\* end the search before any answer (UNKNOWN) or, with an objective, before
\* optimality is proved (FEASIBLE).
SolverOutcomes(cts, obj) ==
    {<<"OPTIMAL", s>> : s \in Optimal(cts, obj)}
        \cup (IF obj.set THEN {<<"FEASIBLE", s>> : s \in Solutions(cts)} ELSE {})
        \cup (IF Solutions(cts) = {} THEN {<<"INFEASIBLE", NoValues>>} ELSE {})
        \cup {<<"UNKNOWN", NoValues>>}

-----------------------------------------------------------------------------
(* _extract_solution                                                       *)

SolvedTrue(day, shift, resident, s) ==
    <<day, shift, resident>> \in assignments /\ s.a[<<day, shift, resident>>] = 1

FirstTrue_NoBreak(day, shift, s) ==
    residents[CHOOSE i \in 1..Len(residents) :
                  /\ SolvedTrue(day, shift, residents[i], s)
                  /\ \A j \in (i + 1)..Len(residents) :
                        ~SolvedTrue(day, shift, residents[j], s)]

FirstTrue(day, shift, s) ==
    residents[CHOOSE i \in 1..Len(residents) :
                  /\ SolvedTrue(day, shift, residents[i], s)
                  /\ \A j \in 1..(i - 1) : ~SolvedTrue(day, shift, residents[j], s)]

extract_solution_SkipEmptyDays(s) ==
    [day \in {d \in Range(days) :
                 \E sh \in Range(shifts_by_day[d]), r \in Range(residents) :
                     SolvedTrue(d, sh, r, s)} |->
        [shift \in {sh \in Range(shifts_by_day[day]) :
                       \E r \in Range(residents) : SolvedTrue(day, sh, r, s)} |->
            FirstTrue(day, shift, s)]]

extract_solution(s) ==
    [day \in Range(days) |->
        [shift \in {sh \in Range(shifts_by_day[day]) :
                       \E r \in Range(residents) : SolvedTrue(day, sh, r, s)} |->
            FirstTrue(day, shift, s)]]

-----------------------------------------------------------------------------
(* The public operations.                                                  *)

\* The names of the rules of the registry's table, commented-out ones too.
ConstraintNames ==
    <<"shift_assignment", "resident_daily", "continuous_hours", "weekly_hours",
      "team_assignment", "rest_periods", "day_off", "hour_goals",
      "alternating_hospitals", "time_off", "circadian_rhythm">>

Generators ==
    {"shift_assignment", "resident_daily", "continuous_hours", "weekly_hours",
     "team_assignment", "rest_periods", "day_off", "time_off"}

NoneArg == [given |-> FALSE, specs |-> <<>>, names |-> <<>>]

\* Arguments a caller passes to apply_constraints: None, or a list of specs.
SpecLists ==
    {NoneArg,
     [given |-> TRUE, names |-> <<>>,
      specs |-> <<[name |-> "shift_assignment", enabled |-> FALSE]>>]} \cup
    {[given |-> TRUE, specs |-> <<ConstraintSpec(n)>>, names |-> <<>>] :
        n \in Generators}

\* Arguments a caller passes to solve: None, or a list of rule names.
EnabledLists ==
    {NoneArg} \cup
    {[given |-> TRUE, specs |-> <<>>, names |-> ns] :
        ns \in {<<>>, <<"shift_assignment">>, <<"time_off">>,
                <<"shift_assignment", "time_off">>}}

\* The variant that drops from the pool the variables no constraint uses.
ApplyConstraints_PrunesPool(constraint_specs, truthy) ==
    /\ calls < MaxCalls
    /\ LET done == apply_constraints(constraint_specs, truthy)
       IN  /\ constraints' = constraints \cup done.constraints
           /\ objective_terms' = objective_terms \o done.terms
           /\ call' = [op |-> "apply_constraints", arg |-> constraint_specs,
                       applied |-> done.applied, status |-> "NONE"]
           /\ result' = [kind |-> IF done.raised THEN "raised" ELSE "applied",
                         schedule |-> <<>>]
           /\ applied_rules' = applied_rules \cup Range(done.applied)
           /\ assignments' =
                 {k \in assignments :
                     \E ct \in constraints \cup done.constraints :
                         \E i \in 1..Len(ct.expr) : ct.expr[i][1] = k}
    /\ calls' = calls + 1
    /\ UNCHANGED <<inputs, lookup_maps, objective, solution>>

ApplyConstraints(constraint_specs, truthy) ==
    /\ calls < MaxCalls
    /\ LET done == apply_constraints(constraint_specs, truthy)
       IN  /\ constraints' = constraints \cup done.constraints
           /\ objective_terms' = objective_terms \o done.terms
           /\ call' = [op |-> "apply_constraints", arg |-> constraint_specs,
                       applied |-> done.applied, status |-> "NONE"]
           /\ result' = [kind |-> IF done.raised THEN "raised" ELSE "applied",
                         schedule |-> <<>>]
           /\ applied_rules' = applied_rules \cup Range(done.applied)
    /\ calls' = calls + 1
    /\ UNCHANGED <<inputs, lookup_maps, assignments, objective, solution>>

Solve(enabled_constraints) ==
    /\ calls < MaxCalls
    /\ LET constraint_specs ==
               IF enabled_constraints.given
               THEN SelectSeq(get_constraint_specs,
                              LAMBDA spec : spec.name \in Range(enabled_constraints.names))
               ELSE get_constraint_specs
           done == apply_constraints([given |-> TRUE, specs |-> constraint_specs,
                                      names |-> <<>>], TRUE)
           cts == constraints \cup done.constraints
           terms == objective_terms \o done.terms
           obj == IF terms # <<>> THEN [set |-> TRUE, terms |-> terms] ELSE objective
       IN  /\ constraints' = cts
           /\ objective_terms' = terms
           /\ applied_rules' = applied_rules \cup Range(done.applied)
           /\ IF done.raised
              THEN /\ call' = [op |-> "solve", arg |-> enabled_constraints,
                               applied |-> done.applied, status |-> "NONE"]
                   /\ result' = [kind |-> "raised", schedule |-> <<>>]
                   /\ UNCHANGED <<objective, solution>>
              ELSE /\ objective' = obj
                   /\ \E outcome \in SolverOutcomes(cts, obj) :
                         /\ call' = [op |-> "solve", arg |-> enabled_constraints,
                                     applied |-> done.applied, status |-> outcome[1]]
                         /\ solution' = outcome[2]
                         /\ result' =
                               IF outcome[1] \in {"OPTIMAL", "FEASIBLE"}
                               THEN [kind |-> "schedule",
                                     schedule |-> extract_solution(outcome[2])]
                               ELSE [kind |-> "None", schedule |-> <<>>]
    /\ calls' = calls + 1
    /\ UNCHANGED <<inputs, lookup_maps, assignments>>

-----------------------------------------------------------------------------
(* Inputs and the state after construction.                                *)

HospitalSystem == <<"L", "W">>

\* Kinds of resident: <<PGY level, service type, requested dates off, goal>>.
ResidentKinds ==
    {<<1, "ED", <<>>, 24>>, <<3, "PEDS", <<1, 2>>, 20>>, <<2, "VACATION", <<>>, 0>>,
     <<3, "OFF_SERVICE", <<1>>, 0>>}

Rosters(kinds, n) ==
    {[i \in 1..Len(ks) |-> Resident(i, ks[i][1], ks[i][2], ks[i][4], ks[i][3])] :
        ks \in UNION {[1..k -> kinds] : k \in 1..n}}

\* The catalogue of weekly templates, in the order of the template list.
TemplateCodes ==
    <<<<"m", "L", "R", 7, "M">>, <<"o", "W", "E", 16, "M">>,
      <<"m", "L", "R", 7, "T">>, <<"o", "W", "E", 16, "T">>>>

SubSeq2(seq, keep) == SelectSeq([i \in 1..Len(seq) |-> <<i, seq[i]>>],
                                LAMBDA p : p[1] \in keep)

\* Template lists: the catalogue with all but at most n entries left out.
TemplateLists(codes, n) ==
    {[i \in 1..Len(SubSeq2(codes, keep)) |-> from_code(SubSeq2(codes, keep)[i][2])] :
        keep \in {k \in SUBSET (1..Len(codes)) : Cardinality(k) <= n}}

\* Shift lists as callers build them: templates expanded over a date range.
ShiftLists(codes, n, start_date, end_date) ==
    {generate_shifts_for_date_range(templates, start_date, end_date).value :
        templates \in TemplateLists(codes, n)}

DayLists == {<<0>>, <<0, 1>>}

PostInit(rs, ss, ds) ==
    /\ residents = rs
    /\ shifts = ss
    /\ days = ds
    /\ hospitals = HospitalSystem
    /\ residents_by_pgy = create_lookup_maps_pgy(rs)
    /\ shifts_by_day = create_lookup_maps_day(ss, ds)
    /\ shifts_by_team = create_lookup_maps_team(ss)
    /\ shifts_by_hospital = create_lookup_maps_hospital(ss, HospitalSystem)
    /\ assignments = create_assignment_variables(rs, create_lookup_maps_day(ss, ds), ds)
    /\ constraints = {}
    /\ objective_terms = <<>>
    /\ objective = [set |-> FALSE, terms |-> <<>>]
    /\ solution = NoValues
    /\ call = [op |-> "__post_init__", arg |-> NoneArg, applied |-> <<>>,
               status |-> "NONE"]
    /\ result = [kind |-> "constructed", schedule |-> <<>>]
    /\ applied_rules = {}
    /\ calls = 0

Init ==
    \E rs \in Rosters(ResidentKinds, MaxResidents),
       ss \in ShiftLists(TemplateCodes, MaxShifts, 0, 1),
       ds \in DayLists :
        PostInit(rs, ss, ds)

Next ==
    \/ \E constraint_specs \in SpecLists, truthy \in BOOLEAN :
          ApplyConstraints(constraint_specs, truthy)
    \/ \E enabled_constraints \in EnabledLists : Solve(enabled_constraints)

Spec == Init /\ [][Next]_vars

\* Horizons of consecutive days with one 07:00 RED shift every day, built as
\* create_schedule builds them, for the week-scoped rules.
DailyTemplates == [i \in 1..7 |-> from_code(<<"m", "L", "R", 7, DayOfWeek[i]>>)]

WeekKinds == {<<1, "ED", <<>>, 60>>, <<2, "PEDS", <<>>, 50>>}

StartDates == {0, 3}

InitWeek ==
    \E rs \in Rosters(WeekKinds, 1), start_date \in StartDates, n \in 1..MaxWeekDays :
        PostInit(rs,
                 generate_shifts_for_date_range(DailyTemplates, start_date,
                                                start_date + n - 1).value,
                 [i \in 1..n |-> start_date + i - 1])

SpecWeek == InitWeek /\ [][Next]_vars

\* Construction of another ScheduleModel from the same residents and shifts
\* listed in another order.
MaxIndexLen == 3

Orderings(n) ==
    {p \in [1..n -> 1..n] : \A i, j \in 1..n : p[i] = p[j] => i = j}

Permuted(seq, p) == [i \in 1..Len(seq) |-> seq[p[i]]]

Construct(rs, ss, ds) ==
    /\ residents' = rs
    /\ shifts' = ss
    /\ days' = ds
    /\ hospitals' = HospitalSystem
    /\ residents_by_pgy' = create_lookup_maps_pgy(rs)
    /\ shifts_by_day' = create_lookup_maps_day(ss, ds)
    /\ shifts_by_team' = create_lookup_maps_team(ss)
    /\ shifts_by_hospital' = create_lookup_maps_hospital(ss, HospitalSystem)
    /\ assignments' = create_assignment_variables(rs, create_lookup_maps_day(ss, ds), ds)
    /\ constraints' = {}
    /\ objective_terms' = <<>>
    /\ objective' = [set |-> FALSE, terms |-> <<>>]
    /\ solution' = NoValues
    /\ call' = [op |-> "__post_init__", arg |-> NoneArg, applied |-> <<>>,
                status |-> "NONE"]
    /\ result' = [kind |-> "constructed", schedule |-> <<>>]
    /\ applied_rules' = {}
    /\ calls' = 0

InitIndex ==
    \E rs \in Rosters(ResidentKinds, MaxIndexLen),
       ss \in ShiftLists(TemplateCodes, MaxIndexLen, 0, 1),
       ds \in DayLists :
        PostInit(rs, ss, ds)

NextIndex ==
    \E p \in Orderings(Len(residents)), q \in Orderings(Len(shifts)) :
        Construct(Permuted(residents, p), Permuted(shifts, q), days)

SpecIndex == InitIndex /\ [][NextIndex]_vars

\* One-day horizons with optional shifts starting at several hours of the
\* day, for the continuous-hours rule.
MaxDayShifts == 3

HourTemplates ==
    <<<<"o", "L", "R", 7, "M">>, <<"o", "L", "G", 10, "M">>,
      <<"o", "W", "E", 16, "M">>, <<"o", "W", "P", 23, "M">>>>

InitHours ==
    \E rs \in Rosters(WeekKinds, 1),
       ss \in ShiftLists(HourTemplates, MaxDayShifts, 0, 0) :
        PostInit(rs, ss, <<0>>)

SpecHours == InitHours /\ [][Next]_vars

\* One-day horizons with shifts on the hour and on the half hour: two at
\* 07:00, and others 11, 12 and 13 clock hours away from them.
MaxPairShifts == 3

PairTemplates ==
    <<from_code(<<"o", "L", "R", 7, "M">>), from_code(<<"o", "W", "I", 7, "M">>),
      from_code(<<"o", "L", "G", 19, "M">>),
      ShiftTemplate("W", "E", 19, 30, "M", <<"o", "W", "E", 19, "M">>, FALSE),
      ShiftTemplate("W", "P", 18, 30, "M", <<"o", "W", "P", 18, "M">>, FALSE),
      ShiftTemplate("L", "B", 6, 30, "M", <<"o", "L", "B", 6, "M">>, FALSE)>>

\* The lists that keep at most n entries of seq, in the order of seq.
Sublists(seq, n) ==
    {[i \in 1..Len(SubSeq2(seq, keep)) |-> SubSeq2(seq, keep)[i][2]] :
        keep \in {k \in SUBSET (1..Len(seq)) : Cardinality(k) <= n}}

InitPairs ==
    \E rs \in Rosters(WeekKinds, 1), templates \in Sublists(PairTemplates, MaxPairShifts) :
        PostInit(rs, generate_shifts_for_date_range(templates, 0, 0).value, <<0>>)

SpecPairs == InitPairs /\ [][Next]_vars

\* Calls of convert_old_to_new_code on legacy codes, parenthesised or not,
\* on strings too short to be one, and on strings with a malformed time.
MaxHour == 23

LegacyHospitals == {"L", "W"}

LegacyTeams == {"R", "G", "I", "E", "B", "P"}

LegacyDays == <<"m", "t", "w", "r", "f", "s", "u">>

TimeSpecs ==
    {<<"d">>, <<"n">>, <<"x">>, <<"0", "7">>} \cup {str(hour) : hour \in 0..MaxHour}

Parenthesised(code) == <<"(">> \o code \o <<")">>

LegacyCodes ==
    {<<h, team>> \o time_spec \o <<LegacyDays[i]>> :
        h \in LegacyHospitals, team \in LegacyTeams, time_spec \in TimeSpecs,
        i \in 1..Len(LegacyDays)}

ShortCodes ==
    UNION {[1..n -> {"L", "R", "7", "d", "w"}] : n \in 0..3}

OldCodes ==
    LegacyCodes \cup ShortCodes
        \cup {Parenthesised(code) : code \in LegacyCodes \cup ShortCodes}
        \cup {<<"(", "L", "R", "7", "m">>, <<"L", "R", "7", "m", ")">>}

\* The call is entered with its argument, then returns or raises.
Convert ==
    /\ call.op = "convert_old_to_new_code"
    /\ call.status = "CALLED"
    /\ call' = [call EXCEPT !.status = "NONE"]
    /\ result' = convert_old_to_new_code(call.arg)
    /\ UNCHANGED <<inputs, lookup_maps, assignments, constraints, objective_terms,
                   objective, solution, applied_rules, calls>>

InitConvert ==
    \E old_code \in OldCodes :
        /\ residents = <<>>
        /\ shifts = <<>>
        /\ days = <<>>
        /\ hospitals = HospitalSystem
        /\ residents_by_pgy = create_lookup_maps_pgy(<<>>)
        /\ shifts_by_day = create_lookup_maps_day(<<>>, <<>>)
        /\ shifts_by_team = create_lookup_maps_team(<<>>)
        /\ shifts_by_hospital = create_lookup_maps_hospital(<<>>, HospitalSystem)
        /\ assignments = {}
        /\ constraints = {}
        /\ objective_terms = <<>>
        /\ objective = [set |-> FALSE, terms |-> <<>>]
        /\ solution = NoValues
        /\ call = [op |-> "convert_old_to_new_code", arg |-> old_code,
                   applied |-> <<>>, status |-> "CALLED"]
        /\ result = [kind |-> "called", value |-> <<>>]
        /\ applied_rules = {}
        /\ calls = 0

NextConvert == Convert

SpecConvert == InitConvert /\ [][NextConvert]_vars

\* The scenario of three ED residents, one of each PGY level, with one
\* mandatory INTERN shift and one mandatory RED shift on a one-day horizon.
ScenarioRoster == [pgy \in 1..3 |-> Resident(pgy, pgy, "ED", 40, <<>>)]

ScenarioShifts ==
    generate_shifts_for_date_range(
        <<from_code(<<"m", "L", "I", 7, "M">>), from_code(<<"m", "L", "R", 7, "M">>)>>,
        0, 0).value

InitScenario ==
    \E p \in Orderings(Len(ScenarioRoster)), q \in Orderings(Len(ScenarioShifts)) :
        PostInit(Permuted(ScenarioRoster, p), Permuted(ScenarioShifts, q), <<0>>)

SpecScenario == InitScenario /\ [][Next]_vars

\* Three-day horizons with shifts at both hospitals, at 07:00 and in the
\* evening, for the soft rules and the rules comparing consecutive days.
MaxSoftShifts == 3

SoftTemplates ==
    <<<<"o", "L", "R", 7, "M">>, <<"o", "W", "P", 7, "M">>,
      <<"o", "L", "E", 16, "T">>, <<"o", "W", "G", 19, "T">>,
      <<"o", "W", "G", 10, "T">>, <<"o", "L", "R", 7, "W">>,
      <<"m", "L", "I", 14, "W">>>>

SoftKinds ==
    {<<1, "ED", <<1>>, 24>>, <<2, "PEDS", <<>>, 1100>>, <<3, "VACATION", <<>>, 40>>}

SoftGenerators ==
    {"shift_assignment", "rest_periods", "hour_goals", "alternating_hospitals",
     "time_off", "circadian_rhythm"}

SoftSpecLists ==
    {[given |-> TRUE, specs |-> <<ConstraintSpec(n)>>, names |-> <<>>] :
        n \in SoftGenerators} \cup
    {[given |-> TRUE, names |-> <<>>,
      specs |-> <<ConstraintSpec("hour_goals"),
                  ConstraintSpec("alternating_hospitals"),
                  ConstraintSpec("time_off"), ConstraintSpec("circadian_rhythm")>>]}

InitSoft ==
    \E rs \in Rosters(SoftKinds, 1),
       ss \in ShiftLists(SoftTemplates, MaxSoftShifts, 0, 2) :
        PostInit(rs, ss, <<0, 1, 2>>)

NextSoft ==
    \/ \E constraint_specs \in SoftSpecLists, truthy \in BOOLEAN :
          ApplyConstraints(constraint_specs, truthy)
    \/ \E enabled_constraints \in EnabledLists : Solve(enabled_constraints)

SpecSoft == InitSoft /\ [][NextSoft]_vars

\* Calls of the duration function of a template and of a dated shift, for
\* templates read from codes and templates constructed with one of the two
\* special codes on another team.
DurationHours == {7, 14}

DurationTemplates ==
    {from_code(<<prefix, h, team, hour, day>>) :
        prefix \in {"m", "o"}, h \in {"L", "W"}, team \in Team,
        hour \in DurationHours, day \in {"M", "W"}}
    \cup {ShiftTemplate("L", team, 14, 0, "W", code, TRUE) :
              team \in {"P", "E"}, code \in {LIdw, LB11w}}

\* The first date on the template's weekday, and the one a week later.
MaxDate == 13

DatesOf(template) ==
    {d \in 0..MaxDate : from_date(d) = template.day_of_week}

TemplateDuration ==
    /\ call.op = "ShiftTemplate.duration"
    /\ call.status = "CALLED"
    /\ call' = [call EXCEPT !.status = "NONE"]
    /\ result' = [kind |-> "returned",
                  value |-> get_duration(call.arg.of, call.arg.level)]
    /\ UNCHANGED <<inputs, lookup_maps, assignments, constraints, objective_terms,
                   objective, solution, applied_rules, calls>>

ShiftDuration ==
    /\ call.op = "Shift.duration"
    /\ call.status = "CALLED"
    /\ call' = [call EXCEPT !.status = "NONE"]
    /\ result' = [kind |-> "returned",
                  value |-> duration(call.arg.of, call.arg.level)]
    /\ UNCHANGED <<inputs, lookup_maps, assignments, constraints, objective_terms,
                   objective, solution, applied_rules, calls>>

\* The state in which a function of base/shift.py has been called with arg.
Called(op, arg) ==
    /\ residents = <<>>
    /\ shifts = <<>>
    /\ days = <<>>
    /\ hospitals = HospitalSystem
    /\ residents_by_pgy = create_lookup_maps_pgy(<<>>)
    /\ shifts_by_day = create_lookup_maps_day(<<>>, <<>>)
    /\ shifts_by_team = create_lookup_maps_team(<<>>)
    /\ shifts_by_hospital = create_lookup_maps_hospital(<<>>, HospitalSystem)
    /\ assignments = {}
    /\ constraints = {}
    /\ objective_terms = <<>>
    /\ objective = [set |-> FALSE, terms |-> <<>>]
    /\ solution = NoValues
    /\ call = [op |-> op, arg |-> arg, applied |-> <<>>, status |-> "CALLED"]
    /\ result = [kind |-> "called", value |-> <<>>]
    /\ applied_rules = {}
    /\ calls = 0

InitDuration ==
    \E template \in DurationTemplates, level \in PGYLevel :
        \/ Called("ShiftTemplate.duration", [of |-> template, level |-> level])
        \/ \E shift_date \in DatesOf(template) :
              Called("Shift.duration",
                     [of |-> create_shift(template, shift_date).value,
                      level |-> level])

NextDuration == TemplateDuration \/ ShiftDuration

SpecDuration == InitDuration /\ [][NextDuration]_vars

\* Calls of generate_shifts_for_date_range on lists of templates of several
\* weekdays and on date ranges that are empty, shorter and longer than a week,
\* in July and across the end of the month.
MaxTemplates == 2

MaxRangeDays == 9

GenerateCodes ==
    <<<<"m", "L", "R", 7, "M">>, <<"o", "W", "E", 16, "M">>,
      <<"m", "L", "R", 7, "T">>, <<"m", "L", "I", 14, "W">>,
      <<"o", "W", "P", 7, "U">>>>

RangeStarts == {0, 1, 5, 22}

Generate ==
    /\ call.op = "generate_shifts_for_date_range"
    /\ call.status = "CALLED"
    /\ call' = [call EXCEPT !.status = "NONE"]
    /\ result' = generate_shifts_for_date_range(call.arg.templates,
                                                call.arg.start_date,
                                                call.arg.end_date)
    /\ UNCHANGED <<inputs, lookup_maps, assignments, constraints, objective_terms,
                   objective, solution, applied_rules, calls>>

InitGenerate ==
    \E templates \in TemplateLists(GenerateCodes, MaxTemplates),
       start_date \in RangeStarts, n \in (0 - 2)..MaxRangeDays :
        Called("generate_shifts_for_date_range",
               [templates |-> templates, start_date |-> start_date,
                end_date |-> start_date + n - 1])

NextGenerate == Generate

SpecGenerate == InitGenerate /\ [][NextGenerate]_vars

-----------------------------------------------------------------------------
(* Properties.                                                             *)

Solved == call.op = "solve"

Returned == Solved /\ result.kind = "schedule"

\* The rule is active in the last solve invocation: named, or no subset given.
ActiveIn(name) ==
    Solved /\ (~call.arg.given \/ name \in Range(call.arg.names))

TrueResidents(day, shift, s) ==
    {r \in Range(residents) : SolvedTrue(day, shift, r, s)}

MandatoryDayShifts ==
    {ds \in Range(days) \X Range(shifts) :
        ds[2].date = ds[1] /\ ds[2].template.is_mandatory}

Staffable(day, shift) ==
    \E r \in Range(residents) : <<day, shift, r>> \in assignments

\* C1: a schedule returned by solve with shift_assignment active has, for
\* every mandatory shift dated on a horizon day, exactly one resident whose
\* variable is true, and lists a resident for it; with a mandatory shift
\* nobody is eligible for, solve returns no schedule.
C1_MandatoryExactlyOne ==
    ActiveIn("shift_assignment") =>
        /\ result.kind = "schedule" =>
              \A ds \in MandatoryDayShifts :
                  /\ Cardinality(TrueResidents(ds[1], ds[2], solution)) = 1
                  /\ ds[2] \in DOMAIN result.schedule[ds[1]]
                  /\ result.schedule[ds[1]][ds[2]] \in
                         TrueResidents(ds[1], ds[2], solution)
        /\ (\E ds \in MandatoryDayShifts : ~Staffable(ds[1], ds[2])) =>
              result.kind = "None"

C1_Witness ==
    /\ ActiveIn("shift_assignment")
    /\ result.kind = "schedule"
    /\ \E ds \in MandatoryDayShifts :
          Cardinality({r \in Range(residents) :
                          <<ds[1], ds[2], r>> \in assignments}) = 2

\* C2: a variable exists for (day, shift, resident) exactly when day is a
\* horizon day, the shift is dated that day and the resident is neither
\* OFF_SERVICE nor VACATION; such residents have no variable at all.
C2_VariablePool ==
    /\ assignments =
          {k \in Range(days) \X Range(shifts) \X Range(residents) :
              /\ k[2].date = k[1]
              /\ k[3].service_type # "OFF_SERVICE"
              /\ k[3].service_type # "VACATION"}
    /\ \A r \in Range(residents) :
          r.service_type \in {"OFF_SERVICE", "VACATION"} =>
              ~\E k \in assignments : k[3] = r

C2_Witness ==
    /\ \E r \in Range(residents) : r.service_type = "VACATION"
    /\ \E r \in Range(residents) : r.service_type = "OFF_SERVICE"
    /\ \E s \in Range(shifts) : s.date \notin Range(days)
    /\ calls > 0

\* C3: the rules a solve invocation applies are exactly the named ones, and
\* all eleven when no subset is given.
C3_EnabledRulesApplied ==
    (Solved /\ result.kind # "raised") =>
        Range(call.applied) =
            (IF call.arg.given
             THEN Range(call.arg.names) \cap Range(ConstraintNames)
             ELSE Range(ConstraintNames))

\* C4: solve never raises; it returns None exactly when the backend reports
\* neither OPTIMAL nor FEASIBLE, in particular for an infeasible model, and
\* otherwise a schedule with one entry for every horizon day.
C4_NoneOrSchedule ==
    Solved =>
        /\ result.kind \in {"None", "schedule"}
        /\ result.kind = "None" <=> call.status \notin {"OPTIMAL", "FEASIBLE"}
        /\ Solutions(constraints) = {} => result.kind = "None"
        /\ result.kind = "schedule" => DOMAIN result.schedule = Range(days)

C4_Witness ==
    /\ Solved
    /\ call.status = "FEASIBLE"
    /\ result.kind = "schedule"
    /\ Len(days) = 2
    /\ \E day \in Range(days) : DOMAIN result.schedule[day] = {}

\* C5: the schedule lists, for each horizon day and each shift of that day,
\* the first resident in roster order whose variable solved true, and does
\* not list a shift without a true variable; zero or several true variables
\* are both handled.
C5_Extraction ==
    Returned =>
        \A day \in Range(days) :
            /\ DOMAIN result.schedule[day] \subseteq Range(shifts_by_day[day])
            /\ \A shift \in Range(shifts_by_day[day]) :
                  IF TrueResidents(day, shift, solution) = {}
                  THEN shift \notin DOMAIN result.schedule[day]
                  ELSE /\ shift \in DOMAIN result.schedule[day]
                       /\ \E i \in 1..Len(residents) :
                             /\ result.schedule[day][shift] = residents[i]
                             /\ SolvedTrue(day, shift, residents[i], solution)
                             /\ \A j \in 1..(i - 1) :
                                   ~SolvedTrue(day, shift, residents[j], solution)

C5_Witness ==
    /\ Returned
    /\ \E day \in Range(days) :
          /\ \E shift \in Range(shifts_by_day[day]) :
                Cardinality(TrueResidents(day, shift, solution)) = 2
          /\ \E shift \in Range(shifts_by_day[day]) :
                /\ Staffable(day, shift)
                /\ TrueResidents(day, shift, solution) = {}

RECURSIVE SumOver(_, _)
SumOver(f, S) ==
    IF S = {} THEN 0
    ELSE LET x == CHOOSE y \in S : TRUE IN f[x] + SumOver(f, S \ {x})

ActiveResidents == {r \in Range(residents) : r.service_type \in {"ED", "PEDS"}}

\* Horizon shifts of one team, and the residents of one PGY level assigned
\* to a shift on its date.
HorizonShifts(team) ==
    {s \in Range(shifts) : s.template.team = team /\ s.date \in Range(days)}

AssignedOfLevel(a, shift, pgy) ==
    {r \in Range(residents) :
        /\ r.pgy_level = pgy
        /\ <<shift.date, shift, r>> \in assignments
        /\ a[<<shift.date, shift, r>>] = 1}

TeamStaffed(a) ==
    /\ \A s \in HorizonShifts("R") : Cardinality(AssignedOfLevel(a, s, 3)) = 1
    /\ \A s \in HorizonShifts("G") : Cardinality(AssignedOfLevel(a, s, 2)) = 1
    /\ \A s \in HorizonShifts("I") : Cardinality(AssignedOfLevel(a, s, 1)) = 1
    /\ \A s \in HorizonShifts("B") : Cardinality(AssignedOfLevel(a, s, 1)) >= 1

\* C6: with only the team-eligibility rule applied, the satisfying
\* assignments are exactly those staffing every horizon RED, GREEN and INTERN
\* shift with one resident of its PGY level on the shift's date and every
\* BLUE shift with at least one PGY-1.
C6_TeamRuleExact ==
    applied_rules = {"team_assignment"} =>
        {s.a : s \in Solutions(constraints)} =
            {a \in [assignments -> {0, 1}] : TeamStaffed(a)}

\* Hours a resident works in the Monday-started week w (days 7w .. 7w+6).
WeekHours(a, r, w) ==
    SumOver([k \in assignments |-> a[k] * duration(k[2], r.pgy_level)],
            {k \in assignments : k[3] = r /\ k[1] \div 7 = w})

WeekCount(a, r, w) ==
    Cardinality({k \in assignments : k[3] = r /\ k[1] \div 7 = w /\ a[k] = 1})

HorizonWeeks == {d \div 7 : d \in Range(days)}

DaysOfWeek(w) == {d \in Range(days) : d \div 7 = w}

\* C7: with the weekly-hours rule applied, no satisfying assignment gives an
\* ED or PEDS resident more than 60 duration-weighted hours in a
\* Monday-started week.
C7_WeeklyHours ==
    "weekly_hours" \in applied_rules =>
        \A s \in Solutions(constraints), r \in ActiveResidents, w \in HorizonWeeks :
            WeekHours(s.a, r, w) <= 60

C7_Witness ==
    /\ "weekly_hours" \in applied_rules
    /\ Returned
    /\ \E r \in ActiveResidents, w \in HorizonWeeks :
          /\ WeekHours([k \in assignments |-> 1], r, w) > 60
          /\ WeekHours(solution.a, r, w) = 60

\* C8: with the daily one-shift rule applied, no satisfying assignment gives
\* an ED or PEDS resident two true variables on the same day.
C8_DailyCap ==
    "resident_daily" \in applied_rules =>
        \A s \in Solutions(constraints), r \in ActiveResidents, day \in Range(days) :
            Cardinality({k \in assignments :
                            k[1] = day /\ k[3] = r /\ s.a[k] = 1}) <= 1

C8_Witness ==
    /\ "resident_daily" \in applied_rules
    /\ Returned
    /\ \E r \in ActiveResidents, day \in Range(days) :
          /\ r.service_type = "PEDS"
          /\ Cardinality({k \in assignments : k[1] = day /\ k[3] = r}) = 2
          /\ Cardinality({k \in assignments :
                             k[1] = day /\ k[3] = r /\ solution.a[k] = 1}) = 1

\* C9: with the weekly day-off rule applied, in every satisfying assignment
\* an ED or PEDS resident has at most (horizon days of the week - 1) true
\* variables in a Monday-started week, so a horizon day of that week is free.
C9_DayOff ==
    "day_off" \in applied_rules =>
        \A s \in Solutions(constraints), r \in ActiveResidents, w \in HorizonWeeks :
            /\ WeekCount(s.a, r, w) <= Cardinality(DaysOfWeek(w)) - 1
            /\ \E d \in DaysOfWeek(w) :
                  \A k \in assignments : (k[1] = d /\ k[3] = r) => s.a[k] = 0

C9_Witness ==
    /\ "day_off" \in applied_rules
    /\ Returned
    /\ \E r \in ActiveResidents, w \in HorizonWeeks :
          /\ Cardinality(DaysOfWeek(w)) >= 3
          /\ WeekCount(solution.a, r, w) = Cardinality(DaysOfWeek(w)) - 1

SoftNames == {"hour_goals", "alternating_hospitals", "time_off", "circadian_rhythm"}

\* The penalty terms of the soft rules the last invocation applied.
SoftTermsOf(names) ==
    Flatten([i \in 1..Len(names) |->
                IF names[i] \in SoftNames
                THEN constraint_func(names[i], TRUE).terms ELSE <<>>])

\* C10: the objective of a solve invocation is the sum of the penalty terms
\* of the soft rules active in that invocation, each once, and no objective
\* is set when none is active, whatever was invoked before.
C10_ObjectiveOfActiveSoftRules ==
    (Solved /\ result.kind # "raised") =>
        IF SoftTermsOf(call.applied) = <<>>
        THEN ~objective.set
        ELSE objective.set /\ objective.terms = SoftTermsOf(call.applied)

\* The rule names a solve invocation was asked to activate.
NamedSet(arg) == IF arg.given THEN Range(arg.names) ELSE Range(ConstraintNames)

\* The constraints the rules of a named set add to a fresh model.
RulesAlone(arg) ==
    apply_constraints(
        [given |-> TRUE, names |-> <<>>,
         specs |-> SelectSeq(get_constraint_specs,
                             LAMBDA spec : spec.name \in NamedSet(arg))],
        TRUE).constraints

\* C11: when solve returned None and is invoked again on the same model with
\* a strictly smaller set of rule names whose rules alone are satisfiable,
\* the backend does not report the model infeasible.
C11_RetryWithSmallerSet ==
    [][(/\ Solved
        /\ result.kind = "None"
        /\ call'.op = "solve"
        /\ calls' = calls + 1
        /\ NamedSet(call'.arg) \subseteq NamedSet(call.arg)
        /\ NamedSet(call'.arg) # NamedSet(call.arg)
        /\ Solutions(RulesAlone(call'.arg)) # {})
            => call'.status # "INFEASIBLE"]_vars

OutOfHorizon == {s \in Range(shifts) : s.date \notin Range(days)}

\* C12: a shift dated outside the day sequence raises no error at
\* construction, is in none of the by-day, by-team and by-hospital indices,
\* has no decision variable and is in no returned schedule.
C12_OutOfHorizonExcluded ==
    \A s \in OutOfHorizon :
        /\ call.op = "__post_init__" => result.kind = "constructed"
        /\ \A day \in DOMAIN shifts_by_day : s \notin Range(shifts_by_day[day])
        /\ \A team \in DOMAIN shifts_by_team : s \notin Range(shifts_by_team[team])
        /\ \A h \in DOMAIN shifts_by_hospital : s \notin Range(shifts_by_hospital[h])
        /\ \A k \in assignments : k[2] # s
        /\ result.kind = "schedule" =>
              \A day \in DOMAIN result.schedule : s \notin DOMAIN result.schedule[day]

SameGrouping(index, other) ==
    /\ DOMAIN index = DOMAIN other
    /\ \A key \in DOMAIN index :
          /\ Range(index[key]) = Range(other[key])
          /\ Len(index[key]) = Len(other[key])

\* C13: a model constructed from the same residents and the same shifts in
\* another order has the same members under every key of the by-PGY, by-day,
\* by-team and by-hospital indices.
C13_IndexOrderIndependent ==
    [][/\ SameGrouping(residents_by_pgy, residents_by_pgy')
       /\ SameGrouping(shifts_by_day, shifts_by_day')
       /\ SameGrouping(shifts_by_team, shifts_by_team')
       /\ SameGrouping(shifts_by_hospital, shifts_by_hospital')]_vars

\* A model built from a reordered roster and a reordered shift list in which
\* a PGY level, a team and a hospital each group two members.
C13_Witness ==
    /\ \E i, j \in 1..Len(residents) :
          /\ i < j
          /\ residents[i].name > residents[j].name
          /\ residents[i].pgy_level = residents[j].pgy_level
    /\ \E i, j \in 1..Len(shifts) :
          /\ i < j
          /\ shifts[i].date > shifts[j].date
          /\ shifts[i].template.team = shifts[j].template.team
    /\ \E h \in DOMAIN shifts_by_hospital : Len(shifts_by_hospital[h]) >= 2
    /\ \E team \in Team : Len(shifts_by_team[team]) = 1

\* C14: in the scenario, solve() with no subset on the fresh model does not
\* find the model infeasible, and a schedule it returns lists the PGY-1
\* resident for the INTERN shift and the PGY-3 resident for the RED shift.
C14_InternAndRedScenario ==
    (Solved /\ calls = 1 /\ ~call.arg.given) =>
        /\ call.status # "INFEASIBLE"
        /\ result.kind = "schedule" =>
              \A day \in Range(days), shift \in Range(shifts) :
                  /\ shift \in DOMAIN result.schedule[day]
                  /\ result.schedule[day][shift].pgy_level =
                        (IF shift.template.team = "I" THEN 1 ELSE 3)

WorksOn(a, resident, day) ==
    \E k \in assignments : k[1] = day /\ k[3] = resident /\ a[k] = 1

\* C15: solve() with no subset on the fresh model, when it reports OPTIMAL,
\* gives a resident no shift on a requested horizon date, unless every
\* assignment satisfying the hard constraints has the resident work that date.
C15_RequestedDayOff ==
    (Solved /\ calls = 1 /\ ~call.arg.given /\ call.status = "OPTIMAL") =>
        \A r \in Range(residents) :
            \A day \in Range(r.requests_off) \cap Range(days) :
                (\E s \in Solutions(constraints) : ~WorksOn(s.a, r, day))
                    => ~WorksOn(solution.a, r, day)

Converted(old_code) ==
    /\ call.op = "convert_old_to_new_code"
    /\ call.status = "NONE"
    /\ call.arg = old_code

TwoDigits(n) == <<DigitChars[(n \div 10) + 1], DigitChars[(n % 10) + 1]>>

NewCode(prefix, h, team, hh, day) ==
    [kind |-> "returned",
     value |-> <<prefix, "-", h, "-", team, "-">> \o TwoDigits(hh) \o <<"-", day>>]

SpecialCodes == {<<"L", "I", "d", "w">>, <<"L", "B", "1", "1", "w">>}

\* The legacy code <h><team><time><day>, parenthesised or not, has been
\* converted to start hour hh (14 for the special codes) on the day.
ConvertedTo(h, team, time_spec, i, hh) ==
    LET code == <<h, team>> \o time_spec \o <<LegacyDays[i]>>
        hour == IF code \in SpecialCodes THEN 14 ELSE hh
    IN  /\ Converted(code) => result = NewCode("m", h, team, hour, DayOfWeek[i])
        /\ Converted(Parenthesised(code)) =>
              result = NewCode("o", h, team, hour, DayOfWeek[i])

\* C16: a legacy code <hospital><team><time><day>, parenthesised or not, is
\* converted to <o|m>-<hospital>-<team>-<HH>-<DAY>: o iff parenthesised, DAY
\* the upper-cased day letter, HH 07 for d, 19 for n, the hour for 7, 9, 11,
\* (hour mod 12) + 12 for any other hour, and 14 for LIdw and LB11w.
C16_ConvertLegacyCode ==
    \A h \in LegacyHospitals, team \in LegacyTeams, i \in 1..Len(LegacyDays) :
        /\ ConvertedTo(h, team, <<"d">>, i, 7)
        /\ ConvertedTo(h, team, <<"n">>, i, 19)
        /\ \A hour \in {7, 9, 11} : ConvertedTo(h, team, str(hour), i, hour)
        /\ \A hour \in (0..MaxHour) \ {7, 9, 11} :
              ConvertedTo(h, team, str(hour), i, (hour % 12) + 12)

\* (LR4t) has been converted to o-L-R-16-T.
C16_Witness ==
    /\ Converted(<<"(", "L", "R", "4", "t", ")">>)
    /\ result.kind = "returned"
    /\ result.value = <<"o", "-", "L", "-", "R", "-", "1", "6", "-", "T">>

\* C17: for a string that, without its enclosing parentheses, has fewer than
\* four characters and is not a special code, the conversion raises
\* ValueError and returns no code.
C17_ShortCodeRaises ==
    \A n \in 0..3 :
        \A code \in [1..n -> {"L", "R", "7", "d", "w"}] \ SpecialCodes :
            (Converted(code) \/ Converted(Parenthesised(code))) =>
                result = [kind |-> "ValueError", value |-> <<>>]

\* "(L)" has been rejected.
C17_Witness ==
    /\ Converted(<<"(", "L", ")">>)
    /\ result.kind = "ValueError"

\* The resident's true variables of a day among the shifts that start less
\* than 12 hours after hour h, around the clock.
TrueInWindow(a, r, day, h) ==
    {k \in assignments :
        /\ k[1] = day
        /\ k[3] = r
        /\ (k[2].template.start_time - h) % 24 < 12
        /\ a[k] = 1}

DayStartHours(day) == {s.template.start_time : s \in Range(shifts_by_day[day])}

\* C18: with the continuous-hours rule applied, in every satisfying
\* assignment an ED or PEDS resident has, for every day and every start hour
\* h of that day's shifts, at most one true variable among all that day's
\* shifts starting at an hour k with (k - h) mod 24 < 12.
C18_ContinuousHours ==
    "continuous_hours" \in applied_rules =>
        \A s \in Solutions(constraints), r \in ActiveResidents, day \in Range(days) :
            \A h \in DayStartHours(day) :
                Cardinality(TrueInWindow(s.a, r, day, h)) <= 1

\* A schedule was returned with the rule applied where a window that wraps
\* past midnight holds three shifts of the resident, one of them true.
C18_Witness ==
    /\ "continuous_hours" \in applied_rules
    /\ Returned
    /\ \E r \in ActiveResidents, day \in Range(days), h \in 0..23 :
          /\ h \in DayStartHours(day)
          /\ Cardinality(TrueInWindow([k \in assignments |-> 1], r, day, h)) = 3
          /\ \E k \in assignments : k[2].template.start_time < h
          /\ Cardinality(TrueInWindow(solution.a, r, day, h)) = 1

\* Two consecutive horizon days on which the resident has a variable each.
RestPairs(r) ==
    {p \in assignments \X assignments :
        /\ p[1][3] = r
        /\ p[2][3] = r
        /\ p[2][1] = p[1][1] + 1}

\* The equivalent-rest rule compares 24 minus the previous shift's duration
\* with the current shift's duration; durations being 5, 9, 10 or 12 hours,
\* the rest is never the smaller and the rule adds no constraint.
RestPeriodNeverInsufficient ==
    /\ \A r \in ActiveResidents : \A p \in RestPairs(r) :
          ~(24 - duration(p[1][2], r.pgy_level) < duration(p[2][2], r.pgy_level))
    /\ rest_period_constraints.constraints = {}

\* The requests the time-off rule penalises: requested dates that are horizon
\* days, per resident.
HorizonRequests ==
    {rq \in Range(residents) \X Range(days) : rq[2] \in Range(rq[1].requests_off)}

\* C20: the time-off rule, applied once to a fresh model, appends one penalty
\* boolean per resident and requested date equal to a horizon day and none
\* for any other requested date; in every satisfying assignment the boolean
\* is true exactly when the resident has a true variable on that date.
C20_TimeOffPenalty ==
    (call.op = "apply_constraints" /\ calls = 1 /\ call.applied = <<"time_off">>) =>
        /\ Len(objective_terms) = Cardinality(HorizonRequests)
        /\ Range(objective_terms) =
              {<<"request_violation", rq[2], rq[1].name>> : rq \in HorizonRequests}
        /\ \A s \in Solutions(constraints), rq \in HorizonRequests :
              s.x[<<"request_violation", rq[2], rq[1].name>>] = 1
                  <=> WorksOn(s.a, rq[1], rq[2])

\* The rule was applied for a resident with a request on a horizon day and a
\* request outside the horizon, who has a variable on the requested day.
C20_Witness ==
    /\ call.op = "apply_constraints"
    /\ calls = 1
    /\ call.applied = <<"time_off">>
    /\ \E rq \in HorizonRequests :
          /\ \E k \in assignments : k[1] = rq[2] /\ k[3] = rq[1]
          /\ \E d \in Range(rq[1].requests_off) : d \notin Range(days)
          /\ \E s \in Solutions(constraints) : WorksOn(s.a, rq[1], rq[2])
          /\ \E s \in Solutions(constraints) : ~WorksOn(s.a, rq[1], rq[2])

\* Duration-weighted hours of the resident's true variables over the horizon.
HorizonHours(a, r) ==
    SumOver([k \in assignments |-> a[k] * duration(k[2], r.pgy_level)],
            {k \in assignments : k[3] = r})

\* C21: the hour-goal rule, applied once to a fresh model, appends one
\* integer term per ED or PEDS resident and none for any other resident;
\* whenever the rule has been applied, the term is non-negative and equals
\* |duration-weighted hours of the resident over the horizon - hours goal| in
\* every satisfying assignment.
C21_HourGoalDeviation ==
    /\ (call.op = "apply_constraints" /\ calls = 1 /\ call.applied = <<"hour_goals">>)
          => /\ Len(objective_terms) = Cardinality(ActiveResidents)
             /\ Range(objective_terms) =
                   {<<"deviation", r.name>> : r \in ActiveResidents}
    /\ "hour_goals" \in applied_rules =>
          \A s \in Solutions(constraints), r \in ActiveResidents :
              /\ s.x[<<"deviation", r.name>>] >= 0
              /\ s.x[<<"deviation", r.name>>] =
                    Abs(HorizonHours(s.a, r) - r.hours_goal)

\* The rule was applied for a resident who can work more hours than the
\* goal, fewer, or exactly the goal.
C21_Witness ==
    /\ call.op = "apply_constraints"
    /\ calls = 1
    /\ call.applied = <<"hour_goals">>
    /\ \E r \in ActiveResidents :
          /\ \E s \in Solutions(constraints) : HorizonHours(s.a, r) > r.hours_goal
          /\ \E s \in Solutions(constraints) : HorizonHours(s.a, r) < r.hours_goal
          /\ \E s \in Solutions(constraints) : s.x[<<"deviation", r.name>>] = 0

ShiftsAt(day, hospital) ==
    {s \in Range(shifts) : s.date = day /\ s.template.hospital = hospital}

\* <<resident, index of the later day, hospital>>: active resident, two days
\* adjacent in the horizon, hospital with shifts on both.
HospitalCases ==
    {c \in ActiveResidents \X (2..Len(days)) \X Range(hospitals) :
        ShiftsAt(days[c[2]], c[3]) # {} /\ ShiftsAt(days[c[2] - 1], c[3]) # {}}

HospitalCount(a, c) ==
    Cardinality({k \in assignments :
                    /\ k[3] = c[1]
                    /\ k[1] \in {days[c[2] - 1], days[c[2]]}
                    /\ k[2].template.hospital = c[3]
                    /\ a[k] = 1})

HospitalPenalty(c) == <<"hospital_violation", days[c[2]], c[1].name, c[3]>>

\* C22: the hospital-alternation rule, applied once to a fresh model, appends
\* one penalty boolean for every active resident, pair of adjacent horizon
\* days and hospital with shifts on both days, and no other term; whenever
\* the rule has been applied, in every satisfying assignment the boolean is
\* true exactly when the resident has at least 2 true variables at that
\* hospital over the two days.
C22_HospitalAlternation ==
    /\ (/\ call.op = "apply_constraints"
        /\ calls = 1
        /\ call.applied = <<"alternating_hospitals">>)
          => /\ Len(objective_terms) = Cardinality(HospitalCases)
             /\ Range(objective_terms) = {HospitalPenalty(c) : c \in HospitalCases}
    /\ "alternating_hospitals" \in applied_rules =>
          \A s \in Solutions(constraints), c \in HospitalCases :
              s.x[HospitalPenalty(c)] = 1 <=> HospitalCount(s.a, c) >= 2

\* The rule was applied where a resident can work at one hospital on both
\* days of a pair or on one of them only, and another hospital has shifts on
\* one day of the pair only.
C22_Witness ==
    /\ call.op = "apply_constraints"
    /\ calls = 1
    /\ call.applied = <<"alternating_hospitals">>
    /\ \E c \in HospitalCases :
          /\ \E s \in Solutions(constraints) : HospitalCount(s.a, c) = 2
          /\ \E s \in Solutions(constraints) : HospitalCount(s.a, c) = 1
          /\ \E h \in Range(hospitals) :
                /\ <<c[1], c[2], h>> \notin HospitalCases
                /\ ShiftsAt(days[c[2]], h) \cup ShiftsAt(days[c[2] - 1], h) # {}

ShiftsOn(day) == {s \in Range(shifts) : s.date = day}

\* <<resident, index of the third day, first shift, second shift, third
\* shift>>: active resident, three days adjacent in the horizon, one shift of
\* each day, starting at 7, at 16 or later, and at 7.
CircadianTriples ==
    UNION {{<<r, i, t[1], t[2], t[3]>> :
               t \in {u \in ShiftsOn(days[i - 2]) \X ShiftsOn(days[i - 1])
                                \X ShiftsOn(days[i]) :
                          /\ u[1].template.start_time = 7
                          /\ u[2].template.start_time >= 16
                          /\ u[3].template.start_time = 7}} :
              <<r, i>> \in ActiveResidents \X (3..Len(days))}

CircadianPenalty(c) ==
    <<"rhythm_violation", days[c[2]], c[1].name, "flipflop", <<c[3], c[4], c[5]>>>>

AllThree(a, c) ==
    /\ a[<<days[c[2] - 2], c[3], c[1]>>] = 1
    /\ a[<<days[c[2] - 1], c[4], c[1]>>] = 1
    /\ a[<<days[c[2]], c[5], c[1]>>] = 1

\* C23: the circadian rule, applied once to a fresh model, appends one
\* penalty boolean for every active resident and every triple of shifts on
\* three adjacent horizon days starting at 7, then at 16 or later, then at 7,
\* and no term for any other triple; whenever the rule has been applied, in
\* every satisfying assignment the boolean is true exactly when the resident
\* is assigned all three shifts of the triple.
C23_CircadianPattern ==
    /\ (/\ call.op = "apply_constraints"
        /\ calls = 1
        /\ call.applied = <<"circadian_rhythm">>)
          => /\ Len(objective_terms) = Cardinality(CircadianTriples)
             /\ Range(objective_terms) = {CircadianPenalty(c) : c \in CircadianTriples}
    /\ "circadian_rhythm" \in applied_rules =>
          \A s \in Solutions(constraints), c \in CircadianTriples :
              s.x[CircadianPenalty(c)] = 1 <=> AllThree(s.a, c)

\* The rule was applied for a resident with a 07:00, 16:00, 07:00 triple that
\* can be assigned in full or in part.
C23_Witness ==
    /\ call.op = "apply_constraints"
    /\ calls = 1
    /\ call.applied = <<"circadian_rhythm">>
    /\ \E c \in CircadianTriples :
          /\ c[4].template.start_time = 16
          /\ \E s \in Solutions(constraints) : AllThree(s.a, c)
          /\ \E s \in Solutions(constraints) :
                /\ ~AllThree(s.a, c)
                /\ s.a[<<days[c[2] - 2], c[3], c[1]>>] = 1
                /\ s.a[<<days[c[2]], c[5], c[1]>>] = 1

\* The template a duration call is about: the argument, or its template.
DurationTemplate ==
    IF call.op = "Shift.duration" THEN call.arg.of.template ELSE call.arg.of

TemplateDates ==
    {p \in (1..Len(call.arg.templates)) \X (call.arg.start_date..call.arg.end_date) :
        DayOfWeek[(p[2] % 7) + 1] = call.arg.templates[p[1]].day_of_week}

\* YYYYMMDD of day d, day 0 being 2024-07-08.
Ymd(d) == IF d <= 23 THEN 20240000 + 700 + (8 + d) ELSE 20240000 + 800 + (d - 23)

\* C25: generate_shifts_for_date_range returns, and what it returns holds
\* exactly one shift for every template and date of the range on the
\* template's weekday, with that template, that date and the code
\* <template code>-YYYYMMDD, and no other shift; it does not raise, and the
\* list is empty when start_date is after end_date.
C25_GenerateShifts ==
    (call.op = "generate_shifts_for_date_range" /\ call.status = "NONE") =>
        /\ result.kind = "returned"
        /\ \A p \in TemplateDates :
              Cardinality({n \in 1..Len(result.value) :
                              /\ result.value[n].template = call.arg.templates[p[1]]
                              /\ result.value[n].date = p[2]}) = 1
        /\ \A n \in 1..Len(result.value) :
              \E p \in TemplateDates :
                  result.value[n] =
                      [template |-> call.arg.templates[p[1]], date |-> p[2],
                       code |-> <<call.arg.templates[p[1]].code, Ymd(p[2])>>]
        /\ call.arg.start_date > call.arg.end_date => result.value = <<>>

\* A list was returned for two templates, one of them giving two shifts a
\* week apart, the later one in August.
C25_Witness ==
    /\ call.op = "generate_shifts_for_date_range"
    /\ call.status = "NONE"
    /\ Len(call.arg.templates) = 2
    /\ \E i, j \in 1..Len(result.value) :
          /\ result.value[i].template = result.value[j].template
          /\ result.value[j].date = result.value[i].date + 7
          /\ result.value[j].code[2] = 20240806
    /\ \E i, j \in 1..Len(result.value) :
          result.value[i].template # result.value[j].template

\* C26: no apply_constraints or solve invocation changes the by-PGY, by-day,
\* by-team or by-hospital index or the key set of the variable pool.
C26_IndicesNeverMutated ==
    [][call'.op \in {"apply_constraints", "solve"} =>
          /\ residents_by_pgy' = residents_by_pgy
          /\ shifts_by_day' = shifts_by_day
          /\ shifts_by_team' = shifts_by_team
          /\ shifts_by_hospital' = shifts_by_hospital
          /\ assignments' = assignments]_vars

\* Rules were applied and a schedule was then returned, on a model whose
\* indices and pool are those construction builds from the inputs.
C26_Witness ==
    /\ calls = 2
    /\ Returned
    /\ applied_rules \ {"shift_assignment"} # {}
    /\ assignments # {}
    /\ assignments = create_assignment_variables(residents, shifts_by_day, days)
    /\ shifts_by_day = create_lookup_maps_day(shifts, days)
    /\ shifts_by_team = create_lookup_maps_team(shifts)

\* The durations the duration function returns.
Durations ==
    {get_duration(template, level) : template \in DurationTemplates, level \in PGYLevel}

SameDayPairs(r) ==
    {p \in assignments \X assignments :
        /\ p[1][3] = r
        /\ p[2][3] = r
        /\ p[1][1] = p[2][1]
        /\ p[1][2] # p[2][2]}

HourGap(p) == Abs(p[1][2].template.start_time - p[2][2].template.start_time)

CanHoldBoth(p) ==
    \E s \in Solutions(constraints) : s.a[p[1]] = 1 /\ s.a[p[2]] = 1

SingleDayWeeks == {w \in HorizonWeeks : Cardinality(DaysOfWeek(w)) = 1}

\* C29: with the weekly day-off rule applied, no satisfying assignment gives
\* an ED or PEDS resident a shift in a Monday-started week that holds exactly
\* one horizon day; when shift_assignment is applied too, every resident is
\* ED or PEDS and that day has a mandatory shift, the model has no solution.
C29_SingleDayWeek ==
    "day_off" \in applied_rules =>
        /\ \A s \in Solutions(constraints), r \in ActiveResidents, w \in SingleDayWeeks :
              WeekCount(s.a, r, w) = 0
        /\ (/\ "shift_assignment" \in applied_rules
            /\ Range(residents) = ActiveResidents
            /\ \E w \in SingleDayWeeks, ds \in MandatoryDayShifts : ds[1] \in DaysOfWeek(w))
              => Solutions(constraints) = {}

\* On a horizon of several days ending on a Monday, day_off was applied and
\* solve, applying shift_assignment, found the model infeasible.
C29_Witness ==
    /\ {"day_off", "shift_assignment"} \subseteq applied_rules
    /\ Solved
    /\ call.status = "INFEASIBLE"
    /\ Len(days) >= 3
    /\ \E w \in SingleDayWeeks, ds \in MandatoryDayShifts :
          /\ ds[1] \in DaysOfWeek(w)
          /\ ds[1] = days[Len(days)]
          /\ \E r \in ActiveResidents : <<ds[1], ds[2], r>> \in assignments

\* The constraints of the hard rules: those without an enforcement literal
\* that are not the definition of a deviation variable.
HardConstraints == {ct \in constraints : ct.lit = <<>> /\ ct.op # "abs"}

Feasible(cts) == {s.a : s \in Solutions(cts)}

\* C30: the assignments of the decision variables that satisfy the model are
\* those that satisfy its hard constraints alone, whichever of the hour-goal,
\* hospital-alternation, time-off and circadian rules have been applied.
C30_SoftRulesKeepFeasibility ==
    Feasible(constraints) = Feasible(HardConstraints)

====
